---- MODULE Spec2Model ----
(***************************************************************************)
(* Verthandi: a command-line client of the Clockify time-tracking service. *)
(*                                                                         *)
(* The module models the settings loader (verthandi/config.py), the REST   *)
(* client (verthandi/clockify/client.py) and the command line              *)
(* (verthandi/cli/main.py).                                                *)
(*                                                                         *)
(* Conventions.                                                            *)
(*   Optional[T]   <<>> is None, <<v>> is the value v.                     *)
(*   str           a TLA+ string where it is only passed on or             *)
(*                 concatenated; a sequence of chunks (Str) where the code *)
(*                 takes it apart (urlparse, str.replace, tomlkit.parse).  *)
(*                 Text(s) is the string a chunk sequence spells.          *)
(*   exceptions    an operation returns a record whose exc field names the *)
(*                 exception raised, "" when it returned normally.         *)
(***************************************************************************)
EXTENDS Integers, Sequences, FiniteSets, TLC

VARIABLES
    \* ---- the settings loader
    fs,          \* the file system: path -> file state
    env,         \* the process environment pydantic reads
    settings,    \* Optional: the settings object held by the caller
    lastLoad,    \* what the last VerthandiSettings.load did
    shown,       \* what the last settings.to_str() gave
    \* ---- the Clockify client
    client,      \* the ClockifyClient instance: its state, _base_url, _defaults
    log,         \* the HTTP requests the session sent, oldest first
    ctor,        \* what the construction was given and was answered
    lastCall,    \* the last client operation: arguments, response, outcome
    lastUrl,     \* the last direct _get_url call and its result
    \* ---- get_timedelta
    clock,       \* the inputs: now and the entry's start, in seconds
    deltaStr,    \* Optional: the string get_timedelta returned
    \* ---- the command line process
    pc,          \* where the process is
    events       \* what the process did so far, oldest first

vars == <<fs, env, settings, lastLoad, shown, client, log, ctor, lastCall,
          lastUrl, clock, deltaStr, pc, events>>

settingsVars == <<fs, env, settings, lastLoad, shown>>
clientVars == <<client, log, ctor, lastCall, lastUrl>>
deltaVars == <<clock, deltaStr>>
cliVars == <<pc, events>>

None == <<>>

Some(v) == <<v>>

RECURSIVE Text(_)
\* The string a sequence of chunks spells.
Text(s) == IF s = <<>> THEN "" ELSE Head(s) \o Text(Tail(s))

(***************************************************************************)
(*                        verthandi/config.py                              *)
(***************************************************************************)

\* _get_appdirs_path(): the platform's user configuration path.
AppdirsPath == "~/.config/Verthandi/verthandi.toml"

\* An explicitly given path.
OtherPath == "/tmp/verthandi.toml"

Paths == {AppdirsPath, OtherPath}

\* The field defaults of VerthandiSettings. A URL is written in chunks: each of
\* its delimiters (":", "//", "/", "?", "#") and each "api" is a chunk of its own.
DefaultBaseUrl == <<"https", ":", "//", "api", ".clockify.me", "/", "api", "/", "v1">>

ExampleBaseUrl == <<"https", ":", "//", "api", ".example.com", "/", "v1">>

FieldNames == <<"BASE_URL", "API_KEY">>

FieldDefault(k) == IF k = "BASE_URL" THEN Some(DefaultBaseUrl) ELSE None

\* A line of TOML text, key = "value", as chunks; the value is a Str.
TomlLine(k, v) == <<k, " = ", "\"", v, "\"">>

IsTomlLine(l) ==
    /\ Len(l) = 5
    /\ l[2] = " = "
    /\ l[3] = "\""
    /\ l[5] = "\""

\* tomlkit.dumps(d) of a dict given as a sequence of <<key, Optional value>>:
\* one line per item, in the dict's order. TOML has no null: tomlkit's item()
\* raises ValueError for a value of None.
RECURSIVE TomlDumps(_)
TomlDumps(d) ==
    IF d = <<>> THEN [exc |-> "", text |-> <<>>]
    ELSE LET k == Head(d)[1]
             v == Head(d)[2]
             rest == TomlDumps(Tail(d))
         IN  IF v = None THEN [exc |-> "ValueError", text |-> <<>>]
             ELSE IF rest.exc # "" THEN rest
             ELSE [exc |-> "", text |-> <<TomlLine(k, v[1])>> \o rest.text]

\* tomlkit.parse(text): the table the lines spell, a function from the keys
\* present to their values; a line that is not key = "value" is a ParseError.
RECURSIVE TomlTable(_)
TomlTable(text) ==
    IF text = <<>> THEN <<>>
    ELSE LET l == Head(text)
         IN  (l[1] :> l[4]) @@ TomlTable(Tail(text))

TomlParse(text) ==
    IF \A i \in 1..Len(text) : IsTomlLine(text[i])
    THEN [exc |-> "", table |-> TomlTable(text)]
    ELSE [exc |-> "ParseError", table |-> <<>>]

\* pydantic BaseSettings: a field's value is the init keyword when given, else
\* the environment variable of its name when set, else the field's default.
BuildSettings(kwargs, e) ==
    [k \in {"BASE_URL", "API_KEY"} |->
        IF k \in DOMAIN kwargs THEN Some(kwargs[k])
        ELSE IF e[k] # None THEN e[k]
        ELSE FieldDefault(k)]

\* self.dict(): the fields in declaration order.
SettingsDict(s) == [i \in 1..Len(FieldNames) |-> <<FieldNames[i], s[FieldNames[i]]>>]

\* VerthandiSettings.to_str
to_str(s) == TomlDumps(SettingsDict(s))

AbsentFile == [kind |-> "absent", text |-> <<>>]

\* A file the process may neither read nor write.
LockedFile == [kind |-> "locked", text |-> <<>>]

File(text) == [kind |-> "file", text |-> text]

\* open(filepath, "r") and f.read()
OpenRead(f, path) ==
    CASE f[path].kind = "absent" -> [exc |-> "FileNotFoundError", text |-> <<>>]
      [] f[path].kind = "locked" -> [exc |-> "PermissionError", text |-> <<>>]
      [] OTHER -> [exc |-> "", text |-> f[path].text]

\* The path save writes to: the one given, or the appdirs path.
SavePath(filepath) == IF filepath = None THEN AppdirsPath ELSE filepath[1]

\* VerthandiSettings.save: open(filepath, "w") truncates or creates the file
\* before to_str() is evaluated; an exception of to_str() leaves it empty.
save(s, filepath, f) ==
    LET path == SavePath(filepath)
        str == to_str(s)
    IN  IF f[path].kind = "locked"
        THEN [exc |-> "PermissionError", fs |-> f]
        ELSE IF str.exc # ""
        THEN [exc |-> str.exc, fs |-> [f EXCEPT ![path] = File(<<>>)]]
        ELSE [exc |-> "", fs |-> [f EXCEPT ![path] = File(str.text)]]

\* The argument load's fallback passes to save: settings_.save() passes none.
FallbackSaveArg(filepath) == None

\* VerthandiSettings.load
load(filepath, f, e) ==
    LET path == IF filepath = None THEN AppdirsPath ELSE filepath[1]
        rd == OpenRead(f, path)
        parsed == TomlParse(rd.text)
    IN  IF rd.exc = ""
        THEN IF parsed.exc # ""
             THEN [exc |-> parsed.exc, settings |-> None, fs |-> f]
             ELSE [exc |-> "", settings |-> Some(BuildSettings(parsed.table, e)),
                   fs |-> f]
        ELSE \* except (PermissionError, FileNotFoundError)
             LET settings_ == BuildSettings(<<>>, e)
                 sv == save(settings_, FallbackSaveArg(filepath), f)
             IN  IF sv.exc # ""
                 THEN [exc |-> sv.exc, settings |-> None, fs |-> sv.fs]
                 ELSE [exc |-> "", settings |-> Some(settings_), fs |-> sv.fs]

\* The settings files a user may have written by hand.
UserTexts ==
    { <<>>,
      <<TomlLine("API_KEY", <<"key-1">>)>>,
      <<TomlLine("BASE_URL", ExampleBaseUrl), TomlLine("API_KEY", <<"key-2">>)>>,
      <<<<"BASE_URL", " = ">>>> }

Envs == [BASE_URL : {None}, API_KEY : {None, Some(<<"key-env">>)}]
            \cup [BASE_URL : {Some(ExampleBaseUrl)}, API_KEY : {None}]

NoLoad ==
    [called |-> FALSE, filepath |-> None, before |-> "absent", exc |-> "",
     settings |-> None, fsAfter |-> [p \in Paths |-> AbsentFile]]

NoShown == [called |-> FALSE, of |-> None, exc |-> "", text |-> <<>>]

\* A caller runs VerthandiSettings.load(filepath).
Load(filepath) ==
    LET r == load(filepath, fs, env)
        path == IF filepath = None THEN AppdirsPath ELSE filepath[1]
    IN  /\ fs' = r.fs
        /\ settings' = IF r.exc = "" THEN r.settings ELSE settings
        /\ lastLoad' = [called |-> TRUE, filepath |-> filepath,
                        before |-> fs[path].kind, exc |-> r.exc,
                        settings |-> r.settings, fsAfter |-> r.fs]
        /\ UNCHANGED <<env, shown>>

\* A caller runs settings.save(filepath) on the object it holds.
Save(filepath) ==
    /\ settings # None
    /\ fs' = save(settings[1], filepath, fs).fs
    /\ UNCHANGED <<env, settings, lastLoad, shown>>

\* A caller runs settings.to_str() on the object it holds.
ToStr ==
    /\ settings # None
    /\ LET r == to_str(settings[1])
       IN  shown' = [called |-> TRUE, of |-> settings, exc |-> r.exc,
                     text |-> r.text]
    /\ UNCHANGED <<fs, env, settings, lastLoad>>

\* The user edits, removes or locks a settings file outside the program.
UserWrites(path, text) ==
    /\ fs[path] # File(text)
    /\ fs' = [fs EXCEPT ![path] = File(text)]
    /\ UNCHANGED <<env, settings, lastLoad, shown>>

UserRemoves(path) ==
    /\ fs[path].kind # "absent"
    /\ fs' = [fs EXCEPT ![path] = AbsentFile]
    /\ UNCHANGED <<env, settings, lastLoad, shown>>

(***************************************************************************)
(*                   verthandi/clockify/client.py                          *)
(***************************************************************************)

\* The largest number of operations called on a constructed client.
MaxCalls == 2

\* The first index of s holding a chunk of set, 0 when there is none.
Find(s, set) ==
    IF \E i \in 1..Len(s) : s[i] \in set
    THEN CHOOSE i \in 1..Len(s) : s[i] \in set /\ \A j \in 1..(i - 1) : s[j] \notin set
    ELSE 0

UrlDelims == {":", "//", "/", "?", "#"}

\* urllib.parse.uses_netloc, the schemes of it that matter here
UsesNetloc == {"", "http", "https", "ftp", "ws", "wss"}

\* s cut at index i: what precedes it and what follows it (all of s and
\* nothing when i = 0).
Cut(s, i) ==
    [head |-> IF i = 0 THEN s ELSE SubSeq(s, 1, i - 1),
     tail |-> IF i = 0 THEN <<>> ELSE SubSeq(s, i + 1, Len(s))]

\* s split at its first chunk of set
SplitFirst(s, set) == Cut(s, Find(s, set))

SchemeAt(url, i) ==
    IF i > 1 /\ \A j \in 1..(i - 1) : url[j] \notin UrlDelims
    THEN [scheme |-> Text(SubSeq(url, 1, i - 1)), url |-> SubSeq(url, i + 1, Len(url))]
    ELSE [scheme |-> "", url |-> url]

\* urlsplit, the scheme: what precedes the first ":" when that is one or more
\* scheme characters (it is lower-cased: the URLs here are written in lower
\* case).
SplitScheme(url) == SchemeAt(url, Find(url, {":"}))

NetlocAt(u, e) ==
    [netloc |-> IF e = 0 THEN u ELSE SubSeq(u, 1, e - 1),
     url |-> IF e = 0 THEN <<>> ELSE SubSeq(u, e, Len(u))]

\* urlsplit, the netloc: what follows a leading "//" up to the next "/", "?"
\* or "#".
SplitNetloc(u) ==
    IF Len(u) >= 1 /\ u[1] = "//"
    THEN NetlocAt(Tail(u), Find(Tail(u), {"/", "?", "#"}))
    ELSE [netloc |-> <<>>, url |-> u]

UrlTuple(s, n, f, q) ==
    [scheme |-> s.scheme, netloc |-> n.netloc, path |-> q.head, params |-> <<>>,
     query |-> q.tail, fragment |-> f.tail]

\* urlsplit, the rest: the fragment is split off at the first "#", then the
\* query at the first "?".
SplitQuery(s, n, f) == UrlTuple(s, n, f, SplitFirst(f.head, {"?"}))

SplitFragment(s, n) == SplitQuery(s, n, SplitFirst(n.url, {"#"}))

ParseAfterScheme(s) == SplitFragment(s, SplitNetloc(s.url))

\* urllib.parse.urlparse(url). No URL here holds a ";", so params is empty.
urlparse(url) == ParseAfterScheme(SplitScheme(url))

WithParams(t) == IF t.params # <<>> THEN t.path \o <<";">> \o t.params ELSE t.path

WithNetloc(t, url) ==
    IF t.netloc # <<>>
           \/ (t.scheme # "" /\ t.scheme \in UsesNetloc
                   /\ ~(Len(url) >= 1 /\ url[1] = "//"))
    THEN <<"//">> \o t.netloc
             \o (IF url # <<>> /\ url[1] # "/" THEN <<"/">> ELSE <<>>) \o url
    ELSE url

WithScheme(t, url) == IF t.scheme # "" THEN <<t.scheme, ":">> \o url ELSE url

WithQuery(t, url) == IF t.query # <<>> THEN url \o <<"?">> \o t.query ELSE url

WithFragment(t, url) == IF t.fragment # <<>> THEN url \o <<"#">> \o t.fragment ELSE url

\* urllib.parse.urlunparse(url_tuple)
urlunparse(t) ==
    WithFragment(t, WithQuery(t, WithScheme(t, WithNetloc(t, WithParams(t)))))

\* s.replace("api", "reports", 1): the first occurrence only
ReplaceApiOnce(s) ==
    LET i == Find(s, {"api"})
    IN  IF i = 0 THEN s ELSE [s EXCEPT ![i] = "reports"]

\* url_tuple._replace(netloc=url_tuple.netloc.replace("api", "reports", 1))
ReplaceNetloc(url_tuple) == [url_tuple EXCEPT !.netloc = ReplaceApiOnce(@)]

_reports_base_url_whole(c) == ReplaceApiOnce(c.base_url)

\* ClockifyClient._reports_base_url
_reports_base_url(c) == urlunparse(ReplaceNetloc(urlparse(c.base_url)))

_get_url_defaults_only(c, endpoint, url_type, workspace_id, user_id) ==
    CASE url_type = Some("report") -> _reports_base_url(c) \o <<"/", endpoint>>
      [] url_type = Some("workspace") ->
            c.base_url \o <<"/workspaces/", c.defaults.workspaceId, "/", endpoint>>
      [] url_type = Some("workspace_user") ->
            c.base_url \o <<"/workspaces/", c.defaults.workspaceId, "/user/",
                            c.defaults.userId, "/", endpoint>>
      [] OTHER -> c.base_url \o <<"/", endpoint>>

\* ClockifyClient._get_url
_get_url(c, endpoint, url_type, workspace_id, user_id) ==
    LET ws == IF workspace_id = None THEN c.defaults.workspaceId ELSE workspace_id[1]
        us == IF user_id = None THEN c.defaults.userId ELSE user_id[1]
    IN  CASE url_type = Some("report") -> _reports_base_url(c) \o <<"/", endpoint>>
          [] url_type = Some("workspace") ->
                c.base_url \o <<"/workspaces/", ws, "/", endpoint>>
          [] url_type = Some("workspace_user") ->
                c.base_url \o <<"/workspaces/", ws, "/user/", us, "/", endpoint>>
          [] OTHER -> c.base_url \o <<"/", endpoint>>

\* What the server, or the network, answers to a request.
Answer(status, json, type, data) ==
    [failed |-> FALSE, status |-> status, json |-> json, type |-> type, data |-> data]

\* The connection fails: requests raises ConnectionError.
TransportFailure ==
    [failed |-> TRUE, status |-> 0, json |-> FALSE, type |-> "none", data |-> <<>>]

UserAnswers ==
    { Answer(200, TRUE, "dict", [id |-> u[1], defaultWorkspace |-> u[2]]) :
          u \in {<<"U1", "W1">>, <<"U2", "W2">>} }

\* An error status with Clockify's JSON error body, and one with a proxy's HTML.
ErrorAnswers ==
    { Answer(401, TRUE, "dict", [message |-> "Api key does not exist", code |-> "4003"]),
      Answer(502, FALSE, "none", <<>>) }

EntryAnswer == Answer(201, TRUE, "dict", [id |-> "E1", description |-> "work"])

ListAnswer == Answer(200, TRUE, "list", <<>>)

AnswersTo(op) ==
    (CASE op = "get_user" -> UserAnswers
       [] op = "list_timeentry" -> {ListAnswer}
       [] OTHER -> {EntryAnswer})
        \cup ErrorAnswers \cup {TransportFailure}

\* req = self._session.<method>(url, ...); return json.loads(req.text)
\* The session raises when the transport fails; the status is not looked at;
\* orjson raises JSONDecodeError for a body that is not JSON.
Fetch(answer) ==
    IF answer.failed THEN [exc |-> "ConnectionError", value |-> TransportFailure]
    ELSE IF ~answer.json THEN [exc |-> "JSONDecodeError", value |-> TransportFailure]
    ELSE [exc |-> "", value |-> answer]

MethodPostToStop(op) == IF op \in {"start_timeentry", "stop_timeentry"} THEN "POST" ELSE "GET"

\* The HTTP method, the endpoint and the URL shape of each operation.
Method(op) ==
    CASE op = "start_timeentry" -> "POST"
      [] op = "stop_timeentry" -> "PATCH"
      [] OTHER -> "GET"

Endpoint(op) == IF op = "get_user" THEN "user" ELSE "time-entries"

UrlType(op) ==
    CASE op = "get_user" -> None
      [] op = "start_timeentry" -> Some("workspace")
      [] OTHER -> Some("workspace_user")

\* The request an operation sends: its method and its URL.
Request(c, op, workspace_id, user_id) ==
    [method |-> Method(op),
     url |-> Text(_get_url(c, Endpoint(op), UrlType(op), workspace_id, user_id))]

\* self._defaults, from the user the server answered
DefaultsOf(user_data) ==
    [workspaceId |-> user_data.defaultWorkspace, userId |-> user_data.id]

NoDefaults == [workspaceId |-> "", userId |-> ""]

NoClient == [state |-> "none", base_url |-> <<>>, api_key |-> <<>>, defaults |-> NoDefaults]

__init__lenient(api_key, base_url, default_base_url, answer) ==
    [exc |-> "",
     client |-> [state |-> "ready",
                 base_url |-> IF base_url = None THEN default_base_url ELSE base_url[1],
                 api_key |-> IF api_key = None THEN <<>> ELSE api_key[1],
                 defaults |-> NoDefaults]]

\* ClockifyClient.__init__: the instance it leaves, and the exception it raised.
\* user_data["defaultWorkspace"] is a KeyError on a body without that key.
__init__(api_key, base_url, default_base_url, answer) ==
    LET url == IF base_url = None THEN default_base_url ELSE base_url[1]
        key == IF api_key = None THEN <<>> ELSE api_key[1]
        self == [state |-> "constructing", base_url |-> url, api_key |-> key,
                 defaults |-> NoDefaults]
        got == Fetch(answer)
    IN  IF got.exc # ""
        THEN [exc |-> got.exc, client |-> [self EXCEPT !.state = "failed"]]
        ELSE IF ~({"defaultWorkspace", "id"} \subseteq DOMAIN got.value.data)
        THEN [exc |-> "KeyError", client |-> [self EXCEPT !.state = "failed"]]
        ELSE [exc |-> "",
              client |-> [self EXCEPT !.state = "ready",
                                      !.defaults = DefaultsOf(got.value.data)]]

ClientAfterCallSticky(c, workspace_id, user_id) ==
    [c EXCEPT !.defaults.workspaceId =
                  IF workspace_id = None THEN @ ELSE workspace_id[1],
              !.defaults.userId = IF user_id = None THEN @ ELSE user_id[1]]

\* The instance after get_user, list_timeentry, start_timeentry or
\* stop_timeentry: none of them assigns to self.
ClientAfterCall(c, workspace_id, user_id) == c

RequestsTwice(lg, req) == lg \o <<req, req>>

\* The session's requests after one more was sent.
Sent(lg, req) == Append(lg, req)

KnownBaseUrls ==
    { DefaultBaseUrl,
      ExampleBaseUrl,
      <<"http", ":", "//", "my", "api", ".io">>,
      <<"https", ":", "//", "api", ".", "api", ".test", "/", "v1">>,
      <<"https", ":", "//", "example.com", "/", "api">>,
      <<"https", ":", "//", "api", ".example.com", ":", "8443", "/", "v1", "?", "tz=utc">>,
      <<"api", ".example.com", "/", "v1">> }

NoCtor ==
    [called |-> FALSE, api_key |-> None, base_url |-> None, default_base_url |-> <<>>,
     answer |-> TransportFailure, exc |-> ""]

NoCall == [n |-> 0, getUserCalls |-> 0, op |-> "", workspace_id |-> None,
           user_id |-> None, answer |-> TransportFailure, exc |-> "",
           value |-> TransportFailure]

NoUrl == [called |-> FALSE, endpoint |-> "", url_type |-> None, workspace_id |-> None,
          user_id |-> None, url |-> ""]

\* ClockifyClient(api_key, base_url): __init__ sends the user request.
Construct(api_key, base_url, default_base_url, answer) ==
    /\ client.state = "none"
    /\ LET r == __init__(api_key, base_url, default_base_url, answer)
       IN  /\ client' = r.client
           /\ log' = Sent(log, Request(r.client, "get_user", None, None))
           /\ ctor' = [called |-> TRUE, api_key |-> api_key, base_url |-> base_url,
                       default_base_url |-> default_base_url, answer |-> answer,
                       exc |-> r.exc]
    /\ UNCHANGED <<lastCall, lastUrl>>

\* One of get_user(), list_timeentry(workspace_id, user_id),
\* start_timeentry(workspace_id) and stop_timeentry(workspace_id, user_id).
Call(op, workspace_id, user_id, answer) ==
    /\ client.state = "ready"
    /\ lastCall.n < MaxCalls
    /\ LET r == Fetch(answer)
       IN  /\ log' = Sent(log, Request(client, op, workspace_id, user_id))
           /\ client' = ClientAfterCall(client, workspace_id, user_id)
           /\ lastCall' = [n |-> lastCall.n + 1,
                           getUserCalls |-> lastCall.getUserCalls
                                                + (IF op = "get_user" THEN 1 ELSE 0),
                           op |-> op, workspace_id |-> workspace_id,
                           user_id |-> user_id, answer |-> answer, exc |-> r.exc,
                           value |-> r.value]
    /\ UNCHANGED <<ctor, lastUrl>>

get_user(answer) == Call("get_user", None, None, answer)

list_timeentry(workspace_id, user_id, answer) ==
    Call("list_timeentry", workspace_id, user_id, answer)

start_timeentry(workspace_id, answer) == Call("start_timeentry", workspace_id, None, answer)

stop_timeentry(workspace_id, user_id, answer) ==
    Call("stop_timeentry", workspace_id, user_id, answer)

\* A direct call of _get_url on a constructed client.
CallGetUrl(endpoint, url_type, workspace_id, user_id) ==
    /\ client.state = "ready"
    /\ lastUrl' = [called |-> TRUE, endpoint |-> endpoint, url_type |-> url_type,
                   workspace_id |-> workspace_id, user_id |-> user_id,
                   url |-> Text(_get_url(client, endpoint, url_type, workspace_id,
                                       user_id))]
    /\ UNCHANGED <<client, log, ctor, lastCall>>

(***************************************************************************)
(*                 verthandi/cli/main.py: get_timedelta                    *)
(***************************************************************************)

\* The largest number of hours an entry has been running.
MaxHours == 26

RECURSIVE ZeroPad(_, _)
\* "%0<w>d" % n, for n >= 0
ZeroPad(str, w) == IF Len(str) >= w THEN str ELSE ZeroPad("0" \o str, w)

\* datetime - datetime: a timedelta, normalised to days, 0 <= seconds < 86400
\* and 0 <= microseconds < 1000000. now has its microseconds set to 0.
TimeDelta(now, dt_1) ==
    LET borrow == IF dt_1.micro > 0 THEN 1 ELSE 0
        secs == (now - dt_1.sec) - borrow
    IN  [days |-> secs \div 86400, seconds |-> secs % 86400,
         microseconds |-> borrow * 1000000 - dt_1.micro]

\* "%d" % n
IntStr(n) == IF n < 0 THEN "-" \o ToString(-n) ELSE ToString(n)

\* timedelta.__str__: [D day[s], ]H:MM:SS[.UUUUUU]
TimeDeltaStr(td) ==
    LET mm0 == td.seconds \div 60
        ss == td.seconds % 60
        hh == mm0 \div 60
        mm == mm0 % 60
        hms == IntStr(hh) \o ":" \o ZeroPad(ToString(mm), 2) \o ":"
                   \o ZeroPad(ToString(ss), 2)
        withDays ==
            IF td.days # 0
            THEN IntStr(td.days) \o " day"
                     \o (IF td.days \notin {1, -1} THEN "s" ELSE "") \o ", " \o hms
            ELSE hms
    IN  IF td.microseconds # 0
        THEN withDays \o "." \o ZeroPad(ToString(td.microseconds), 6)
        ELSE withDays

\* get_timedelta(dts_1): str(now - dt_parse(dts_1))
get_timedelta(now, dt_1) == TimeDeltaStr(TimeDelta(now, dt_1))

\* The clock readings: an entry started h:m:s (and perhaps a fraction) before
\* now, or a few seconds after it (a clock that runs behind the server's).
Elapsed ==
    { h * 3600 + m * 60 + s : h \in 0..MaxHours, m \in {0, 2, 59}, s \in {0, 3, 59} }
        \cup {-1, -62}

Clocks ==
    { [now |-> 200000, start |-> [sec |-> 200000 - e, micro |-> u]] :
          e \in Elapsed, u \in {0, 500000} }

\* list_ renders an entry: get_timedelta(entry["timeInterval"]["start"])
GetTimedelta ==
    /\ deltaStr = None
    /\ deltaStr' = Some(get_timedelta(clock.now, clock.start))
    /\ UNCHANGED clock

(***************************************************************************)
(*              verthandi/cli/main.py: the process of a command            *)
(***************************************************************************)

Commands == {"list", "start", "finish", "config"}

\* The in-progress entry the server lists: it started 1:02:03 ago.
RunningEntry == [description |-> "work", start |-> [sec |-> 200000 - 3723, micro |-> 0]]

CliListAnswer == Answer(200, TRUE, "list", <<RunningEntry>>)

CliAnswersTo(op) ==
    IF op = "list_timeentry"
    THEN {CliListAnswer} \cup ErrorAnswers \cup {TransportFailure}
    ELSE AnswersTo(op)

\* from verthandi.config import settings: the module's last line runs
\* settings = VerthandiSettings.load()
ImportConfig ==
    /\ pc = "import"
    /\ Load(None)
    /\ events' = Append(events, "settings_load")
    /\ pc' = IF lastLoad'.exc = "" THEN "settings_loaded" ELSE "crashed"

\* client = ClockifyClient(api_key=settings.API_KEY, base_url=settings.BASE_URL)
ModuleClient(answer) ==
    /\ pc = "settings_loaded"
    /\ Construct(settings[1].API_KEY, settings[1].BASE_URL, settings[1].BASE_URL[1],
                 answer)
    /\ events' = Append(events, "user_fetch")
    /\ pc' = IF ctor'.exc = "" THEN "client_ready" ELSE "crashed"

\* list_: the entries' table is printed when every row could be rendered; an
\* error body (a dict) is iterated by its keys, and indexing a key by
\* "description" is a TypeError.
list_(answer) ==
    /\ pc = "client_ready"
    /\ list_timeentry(None, None, answer)
    /\ LET ok == lastCall'.exc = "" /\ lastCall'.value.type = "list"
           rows == lastCall'.value.data
       IN  /\ events' = events \o <<"list">> \o (IF ok THEN <<"print">> ELSE <<>>)
           /\ pc' = IF ok THEN "done" ELSE "crashed"
           /\ deltaStr' = IF ok /\ rows # <<>>
                          THEN Some(get_timedelta(clock.now, rows[Len(rows)].start))
                          ELSE deltaStr
    /\ UNCHANGED clock

\* start(description)
start(answer) ==
    /\ pc = "client_ready"
    /\ start_timeentry(None, answer)
    /\ events' = Append(events, "start")
    /\ pc' = IF lastCall'.exc = "" THEN "done" ELSE "crashed"

\* finish: print(client.stop_timeentry(body=body))
finish(answer) ==
    /\ pc = "client_ready"
    /\ stop_timeentry(None, None, answer)
    /\ LET ok == lastCall'.exc = ""
       IN  /\ events' = events \o <<"finish">> \o (IF ok THEN <<"print">> ELSE <<>>)
           /\ pc' = IF ok THEN "done" ELSE "crashed"

\* config: typer.echo(settings.to_str())
config ==
    /\ pc = "client_ready"
    /\ ToStr
    /\ LET ok == shown'.exc = ""
       IN  /\ events' = events \o <<"config">> \o (IF ok THEN <<"print">> ELSE <<>>)
           /\ pc' = IF ok THEN "done" ELSE "crashed"

(***************************************************************************)
(*                          The specifications                             *)
(***************************************************************************)

NoFiles == [p \in Paths |-> AbsentFile]

NoEnv == [BASE_URL |-> None, API_KEY |-> None]

\* The files a run may find: none, an empty one, or one it may not open.
FoundFiles == [Paths -> {AbsentFile, LockedFile, File(<<>>)}]

IdleClock == [now |-> 200000, start |-> [sec |-> 200000, micro |-> 0]]

FilepathArgs == {None} \cup {Some(p) : p \in Paths}

ApiKeyArgs == {None, Some(<<"key-1">>)}

BaseUrlArgs == {None} \cup {Some(u) : u \in KnownBaseUrls}

IdArgs(ids) == {None} \cup {Some(i) : i \in ids}

\* ---- The settings loader, used as a library.
InitSettings ==
    /\ fs \in FoundFiles
    /\ env \in Envs
    /\ settings = None
    /\ lastLoad = NoLoad
    /\ shown = NoShown
    /\ client = NoClient
    /\ log = <<>>
    /\ ctor = NoCtor
    /\ lastCall = NoCall
    /\ lastUrl = NoUrl
    /\ clock = IdleClock
    /\ deltaStr = None
    /\ pc = "library"
    /\ events = <<>>

NextSettings ==
    \/ (\E filepath \in FilepathArgs : Load(filepath))
           /\ UNCHANGED <<clientVars, deltaVars, cliVars>>
    \/ (\E filepath \in FilepathArgs : Save(filepath))
           /\ UNCHANGED <<clientVars, deltaVars, cliVars>>
    \/ ToStr /\ UNCHANGED <<clientVars, deltaVars, cliVars>>
    \/ (\E path \in Paths, text \in UserTexts : UserWrites(path, text))
           /\ UNCHANGED <<clientVars, deltaVars, cliVars>>
    \/ (\E path \in Paths : UserRemoves(path))
           /\ UNCHANGED <<clientVars, deltaVars, cliVars>>

SpecSettings == InitSettings /\ [][NextSettings]_vars

\* ---- The client, used as a library.
InitClient ==
    /\ fs = NoFiles
    /\ env = NoEnv
    /\ settings = None
    /\ lastLoad = NoLoad
    /\ shown = NoShown
    /\ client = NoClient
    /\ log = <<>>
    /\ ctor = NoCtor
    /\ lastCall = NoCall
    /\ lastUrl = NoUrl
    /\ clock = IdleClock
    /\ deltaStr = None
    /\ pc = "library"
    /\ events = <<>>

Constructs ==
    \E api_key \in ApiKeyArgs, base_url \in BaseUrlArgs, answer \in AnswersTo("get_user") :
        Construct(api_key, base_url, DefaultBaseUrl, answer)

\* URL construction on a constructed client.
NextUrl ==
    \/ Constructs /\ UNCHANGED <<settingsVars, deltaVars, cliVars>>
    \/ (\E endpoint \in {"user", "summary"},
           url_type \in IdArgs({"report", "workspace", "workspace_user"}),
           workspace_id \in IdArgs({"W9"}), user_id \in IdArgs({"U9"}) :
            CallGetUrl(endpoint, url_type, workspace_id, user_id))
           /\ UNCHANGED <<settingsVars, deltaVars, cliVars>>

SpecUrl == InitClient /\ [][NextUrl]_vars

\* The four operations on a constructed client.
NextClient ==
    \/ Constructs /\ UNCHANGED <<settingsVars, deltaVars, cliVars>>
    \/ (\E answer \in AnswersTo("get_user") : get_user(answer))
           /\ UNCHANGED <<settingsVars, deltaVars, cliVars>>
    \/ (\E workspace_id \in IdArgs({"W9"}), user_id \in IdArgs({"U9"}),
           answer \in AnswersTo("list_timeentry") :
            list_timeentry(workspace_id, user_id, answer))
           /\ UNCHANGED <<settingsVars, deltaVars, cliVars>>
    \/ (\E workspace_id \in IdArgs({"W9"}), answer \in AnswersTo("start_timeentry") :
            start_timeentry(workspace_id, answer))
           /\ UNCHANGED <<settingsVars, deltaVars, cliVars>>
    \/ (\E workspace_id \in IdArgs({"W9"}), user_id \in IdArgs({"U9"}),
           answer \in AnswersTo("stop_timeentry") :
            stop_timeentry(workspace_id, user_id, answer))
           /\ UNCHANGED <<settingsVars, deltaVars, cliVars>>

SpecClient == InitClient /\ [][NextClient]_vars

\* ---- get_timedelta, applied to a clock reading.
InitDelta ==
    /\ fs = NoFiles
    /\ env = NoEnv
    /\ settings = None
    /\ lastLoad = NoLoad
    /\ shown = NoShown
    /\ client = NoClient
    /\ log = <<>>
    /\ ctor = NoCtor
    /\ lastCall = NoCall
    /\ lastUrl = NoUrl
    /\ clock \in Clocks
    /\ deltaStr = None
    /\ pc = "library"
    /\ events = <<>>

NextDelta == GetTimedelta /\ UNCHANGED <<settingsVars, clientVars, cliVars>>

SpecDelta == InitDelta /\ [][NextDelta]_vars

\* ---- One run of the command line: the imports, then the command.
InitCli ==
    /\ fs \in FoundFiles
    /\ env \in Envs
    /\ settings = None
    /\ lastLoad = NoLoad
    /\ shown = NoShown
    /\ client = NoClient
    /\ log = <<>>
    /\ ctor = NoCtor
    /\ lastCall = NoCall
    /\ lastUrl = NoUrl
    /\ clock = IdleClock
    /\ deltaStr = None
    /\ pc = "import"
    /\ events = <<>>

NextCli ==
    \/ ImportConfig /\ UNCHANGED <<clientVars, deltaVars>>
    \/ (\E answer \in CliAnswersTo("get_user") : ModuleClient(answer))
           /\ UNCHANGED <<settingsVars, deltaVars>>
    \/ (\E answer \in CliAnswersTo("list_timeentry") : list_(answer))
           /\ UNCHANGED settingsVars
    \/ (\E answer \in CliAnswersTo("start_timeentry") : start(answer))
           /\ UNCHANGED <<settingsVars, deltaVars>>
    \/ (\E answer \in CliAnswersTo("stop_timeentry") : finish(answer))
           /\ UNCHANGED <<settingsVars, deltaVars>>
    \/ config /\ UNCHANGED <<clientVars, deltaVars>>

SpecCli == InitCli /\ [][NextCli]_vars

(***************************************************************************)
(*                              The claims                                 *)
(***************************************************************************)

\* The path a load(filepath) reads.
LoadPath(filepath) == IF filepath = None THEN AppdirsPath ELSE filepath[1]

\* C1: for every path p (given, or the default) at which no settings file
\* exists, load(p) returns the default settings, a settings file then exists
\* at p, and a subsequent load(p) reads it and returns the same defaults.
C1_LoadCreatesDefaultsAtPath ==
    (lastLoad.called /\ lastLoad.before = "absent") =>
        LET again == load(lastLoad.filepath, lastLoad.fsAfter, env)
        IN  /\ lastLoad.exc = ""
            /\ lastLoad.settings = Some(BuildSettings(<<>>, env))
            /\ lastLoad.fsAfter[LoadPath(lastLoad.filepath)].kind = "file"
            /\ again.exc = ""
            /\ again.settings = lastLoad.settings
            /\ again.fs = lastLoad.fsAfter

\* C7: for every settings value, the default settings (API key None) included,
\* to_str() produces TOML text, and parsing that text back into settings gives
\* settings equal to the original.
C7_ToStrRoundTrips ==
    shown.called =>
        /\ shown.exc = ""
        /\ TomlParse(shown.text).exc = ""
        /\ BuildSettings(TomlParse(shown.text).table, env) = shown.of[1]

\* C8: for a start time h hours, m minutes and s whole seconds before now,
\* get_timedelta returns h:mm:ss, for every h >= 0, h >= 24 included.
C8_DeltaIsHoursMinutesSeconds ==
    LET e == clock.now - clock.start.sec
    IN  (deltaStr # None /\ clock.start.micro = 0 /\ e >= 0) =>
            deltaStr[1] = ToString(e \div 3600) \o ":"
                              \o ZeroPad(ToString((e \div 60) % 60), 2) \o ":"
                              \o ZeroPad(ToString(e % 60), 2)

\* The base URL a constructed client was given, as text.
GivenBase == Text(IF ctor.base_url = None THEN ctor.default_base_url ELSE ctor.base_url[1])

\* The ids of the user the server answered the construction with.
CapturedWorkspace == ctor.answer.data.defaultWorkspace

CapturedUser == ctor.answer.data.id

\* The workspace or user id a call is to use: the one supplied, else the
\* default captured at construction.
IdUsed(supplied, captured) == IF supplied = None THEN captured ELSE supplied[1]

\* C2: _get_url returns base/endpoint for a plain endpoint,
\* base/workspaces/{workspace}/endpoint for url_type "workspace" and
\* base/workspaces/{workspace}/user/{user}/endpoint for "workspace_user"; an
\* omitted id is the default captured at construction, a supplied one is used
\* as given.
C2_UrlShapes ==
    (lastUrl.called /\ lastUrl.url_type # Some("report")) =>
        LET w == IdUsed(lastUrl.workspace_id, CapturedWorkspace)
            u == IdUsed(lastUrl.user_id, CapturedUser)
        IN  lastUrl.url =
                CASE lastUrl.url_type = Some("workspace") ->
                        GivenBase \o "/workspaces/" \o w \o "/" \o lastUrl.endpoint
                  [] lastUrl.url_type = Some("workspace_user") ->
                        GivenBase \o "/workspaces/" \o w \o "/user/" \o u \o "/"
                            \o lastUrl.endpoint
                  [] OTHER -> GivenBase \o "/" \o lastUrl.endpoint

C2_Witness ==
    /\ lastUrl.called
    /\ lastUrl.url_type = Some("workspace_user")
    /\ lastUrl.workspace_id = None
    /\ lastUrl.user_id = Some("U9")
    /\ lastUrl.url = "https://api.example.com/v1/workspaces/W2/user/U9/summary"

\* The reports base URL of each known base URL: "api" replaced by "reports" in
\* the host, where the URL has one, and nowhere else.
ExpectedReportsBase(base) ==
    CASE base = "https://api.clockify.me/api/v1" -> "https://reports.clockify.me/api/v1"
      [] base = "https://api.example.com/v1" -> "https://reports.example.com/v1"
      [] base = "http://myapi.io" -> "http://myreports.io"
      [] base = "https://api.api.test/v1" -> "https://reports.api.test/v1"
      [] base = "https://example.com/api" -> "https://example.com/api"
      [] base = "https://api.example.com:8443/v1?tz=utc" ->
            "https://reports.example.com:8443/v1?tz=utc"
      [] base = "api.example.com/v1" -> "api.example.com/v1"

\* C3: the report URL differs from base/endpoint only in the host, where the
\* first "api" is replaced by "reports"; the scheme and the path of the base
\* URL are unchanged, also when the path itself contains "api".
C3_ReportUrlReplacesHostOnly ==
    (lastUrl.called /\ lastUrl.url_type = Some("report")) =>
        LET base == IF ctor.base_url = None THEN ctor.default_base_url
                    ELSE ctor.base_url[1]
            was == urlparse(base)
            now == urlparse(_reports_base_url(client))
        IN  /\ lastUrl.url = ExpectedReportsBase(GivenBase) \o "/" \o lastUrl.endpoint
            /\ now.scheme = was.scheme
            /\ now.path = was.path
            /\ now.query = was.query
            /\ now.fragment = was.fragment

C3_Witness ==
    /\ lastUrl.called
    /\ lastUrl.url_type = Some("report")
    /\ GivenBase = "https://api.clockify.me/api/v1"
    /\ lastUrl.url = "https://reports.clockify.me/api/v1/summary"

\* The request that fetches the user.
UserRequest == [method |-> "GET", url |-> GivenBase \o "/user"]

\* C4: constructing a client sends the user request as its first request,
\* exactly once, before any workspace-scoped request; the default ids are the
\* defaultWorkspace and id of that response; no later operation fetches the
\* user again unless it is get_user itself.
C4_UserFetchedOnceAtConstruction ==
    /\ ctor.called <=> log # <<>>
    /\ log # <<>> => log[1] = UserRequest
    /\ ctor.called =>
           Cardinality({i \in DOMAIN log : log[i] = UserRequest})
               = 1 + lastCall.getUserCalls
    /\ client.state = "ready" =>
           /\ ctor.exc = ""
           /\ client.defaults.workspaceId = CapturedWorkspace
           /\ client.defaults.userId = CapturedUser

C4_Witness ==
    /\ client.state = "ready"
    /\ Len(log) = 3
    /\ lastCall.getUserCalls = 0
    /\ log[1] = UserRequest
    /\ log[2] # UserRequest
    /\ log[3] # UserRequest

\* The request each operation is to send.
ExpectedRequest(op, workspace_id, user_id) ==
    LET w == IdUsed(workspace_id, CapturedWorkspace)
        u == IdUsed(user_id, CapturedUser)
        scoped == GivenBase \o "/workspaces/" \o w \o "/user/" \o u \o "/time-entries"
    IN  CASE op = "get_user" -> UserRequest
          [] op = "list_timeentry" -> [method |-> "GET", url |-> scoped]
          [] op = "start_timeentry" ->
                [method |-> "POST",
                 url |-> GivenBase \o "/workspaces/" \o w \o "/time-entries"]
          [] op = "stop_timeentry" -> [method |-> "PATCH", url |-> scoped]

\* C5: each client operation sends exactly one HTTP request, with the method
\* and URL shape of its contract: get_user a GET of user, list_timeentry a GET
\* of the workspace-user-scoped time-entries, start_timeentry a POST to the
\* workspace-scoped time-entries, stop_timeentry a PATCH to the
\* workspace-user-scoped time-entries, with no entry id.
C5_OneRequestPerOperation ==
    [][lastCall'.n # lastCall.n =>
           log' = Append(log, ExpectedRequest(lastCall'.op, lastCall'.workspace_id,
                                              lastCall'.user_id))]_vars

C5_Witness ==
    /\ lastCall.op = "stop_timeentry"
    /\ lastCall.workspace_id = Some("W9")
    /\ lastCall.user_id = None
    /\ GivenBase = "https://api.clockify.me/api/v1"
    /\ log[Len(log)] =
           [method |-> "PATCH",
            url |-> "https://api.clockify.me/api/v1/workspaces/W9/user/U1/time-entries"]

\* C6: an HTTP error (a response with an error status) or a transport failure
\* propagates to the caller of each operation as an error; the operation does
\* not return a value as if it had succeeded.
C6_ErrorsPropagate ==
    (lastCall.n > 0 /\ (lastCall.answer.failed \/ lastCall.answer.status >= 400)) =>
        lastCall.exc # ""

\* C9: after construction no sequence of operations changes the client's base
\* URL or its default ids; an explicit id is used for that one request only,
\* and a later call that omits the ids uses the defaults captured at
\* construction.
C9_DefaultsNeverChange ==
    (ctor.called /\ ctor.exc = "") =>
        /\ Text(client.base_url) = GivenBase
        /\ client.defaults =
               [workspaceId |-> CapturedWorkspace, userId |-> CapturedUser]
        /\ (lastCall.n > 0 /\ lastCall.workspace_id = None /\ lastCall.user_id = None) =>
               log[Len(log)] = ExpectedRequest(lastCall.op, None, None)

C9_Witness ==
    /\ lastCall.n = 2
    /\ lastCall.op = "list_timeentry"
    /\ lastCall.workspace_id = None
    /\ lastCall.user_id = None
    /\ GivenBase = "https://api.example.com/v1"
    /\ log[2].url = "https://api.example.com/v1/workspaces/W9/user/U9/time-entries"
    /\ log[3].url = "https://api.example.com/v1/workspaces/W1/user/U1/time-entries"

\* The user request of the construction failed: the transport, or the status.
UserFetchFailed == ctor.called /\ (ctor.answer.failed \/ ctor.answer.status >= 400)

\* C10: every command, config included, runs only after the module-level
\* client construction completed its user fetch: the settings load precedes
\* the user fetch, the user fetch precedes the command body, and when the user
\* fetch fails no command body runs and nothing is printed.
C10_CommandsRunAfterUserFetch ==
    /\ \A k \in DOMAIN events :
           /\ events[k] = "user_fetch" =>
                  /\ k = 2
                  /\ events[1] = "settings_load"
                  /\ lastLoad.called /\ lastLoad.exc = ""
                  /\ log # <<>> /\ log[1] = UserRequest
           /\ events[k] \in Commands =>
                  /\ k = 3
                  /\ events[2] = "user_fetch"
                  /\ ~UserFetchFailed
                  /\ client.state = "ready"
    /\ UserFetchFailed => \A k \in DOMAIN events : events[k] \notin Commands \cup {"print"}

C10_Witness ==
    /\ events = <<"settings_load", "user_fetch", "config", "print">>
    /\ pc = "done"

====
